---- MODULE Spec2Model ----
(***************************************************************************)
(* Model of the fiscal-monetary projection engine of src/app_V2.py:        *)
(* NigeriaFiscalMonetaryModel.__init__, calculate_impact and the channel   *)
(* functions it calls, together with the cached entry point               *)
(* run_enhanced_model.                                                     *)
(*                                                                         *)
(* Python floats are modelled as fixed-point numbers: the integer n stands *)
(* for the real number n / S.  Every product and quotient is computed as   *)
(* the code computes it, operation by operation and in the code's order,   *)
(* and is truncated towards zero to a multiple of 1/S.                     *)
(***************************************************************************)
EXTENDS Integers, Sequences, FiniteSets, TLC

\* ------------------------------------------------------------------------
\* Fixed-point arithmetic
\* ------------------------------------------------------------------------

\* Resolution of the fixed-point numbers: four decimal places.
S == 100 * 100

Abs(x) == IF x < 0 THEN -x ELSE x

Max(a, b) == IF a >= b THEN a ELSE b

Min(a, b) == IF a <= b THEN a ELSE b

\* The decimal literal n/d, e.g. D(33, 100) is 0.33.
D(n, d) == (n * S) \div d

\* The integer literal n as a fixed-point number.
I(n) == n * S

\* a / k for an integer literal k > 0.
DivI(a, k) == IF a < 0 THEN -((-a) \div k) ELSE a \div k

\* |a| * |b| / S without forming the full product.
MulMag(a, b) ==
    LET ah == a \div S
        al == a % S
        bh == b \div S
        bl == b % S
    IN  ah * bh * S + ah * bl + al * bh + (al * bl) \div S

\* a * b
Mul(a, b) ==
    IF (a < 0) = (b < 0) THEN MulMag(Abs(a), Abs(b)) ELSE -MulMag(Abs(a), Abs(b))

\* The first k decimal digits of r / b, for 0 <= r < b.
RECURSIVE FracDigits(_, _, _)
FracDigits(r, b, k) ==
    IF k = 0 THEN 0
    ELSE LET r10 == r * 10
         IN  FracDigits(r10 % b, b, k - 1) + (r10 \div b) * (10 ^ (k - 1))

\* |a| / |b| for b # 0, by long division.
DivMag(a, b) == (a \div b) * S + FracDigits(a % b, b, 4)

\* a / b; the callers guard b # 0 (Python raises ZeroDivisionError there).
Div(a, b) ==
    IF (a < 0) = (b < 0) THEN DivMag(Abs(a), Abs(b)) ELSE -DivMag(Abs(a), Abs(b))

\* ------------------------------------------------------------------------
\* NigeriaFiscalMonetaryModel.__init__
\* ------------------------------------------------------------------------

NewModel ==
    [ initial_gdp                 |-> I(450),
      initial_debt                |-> I(140),
      initial_deficit             |-> I(12),
      oil_revenue                 |-> I(25),
      non_oil_revenue             |-> I(35),
      total_revenue               |-> I(25) + I(35),
      total_spending              |-> I(25) + I(35) + I(12),
      oil_price                   |-> I(75),
      oil_production              |-> D(14, 10),
      oil_revenue_per_dollar      |-> D(33, 100),
      policy_rate                 |-> D(1875, 100),
      inflation_target            |-> I(9),
      current_inflation           |-> I(28),
      exchange_rate               |-> I(1500),
      foreign_reserves            |-> I(33),
      imports_gdp_ratio           |-> D(14, 100),
      exports_gdp_ratio           |-> D(11, 100),
      import_elasticity           |-> D(8, 10),
      export_elasticity           |-> D(6, 10),
      poverty_rate                |-> I(40),
      unemployment_rate           |-> I(4),
      informal_sector_share       |-> I(55),
      income_inequality_gini      |-> D(351, 10),
      poor_consumption_share      |-> I(15),
      rich_consumption_share      |-> I(55),
      cyclically_adjusted_balance |-> -I(8),
      automatic_stabilizers       |-> D(2, 10) ]

\* ------------------------------------------------------------------------
\* The channel functions
\* ------------------------------------------------------------------------

Conditions == {"high_debt", "high_inflation", "recession", "boom", "normal"}

\* assess_economic_condition with the inflation test before the debt test.
assess_economic_condition_InflationFirst(self, gdp, debt_to_gdp, inflation) ==
    IF inflation > I(25) THEN "high_inflation"
    ELSE IF debt_to_gdp > I(60) THEN "high_debt"
    ELSE IF gdp < Mul(self.initial_gdp, D(98, 100)) THEN "recession"
    ELSE IF gdp > Mul(self.initial_gdp, D(105, 100)) THEN "boom"
    ELSE "normal"

assess_economic_condition(self, gdp, debt_to_gdp, inflation) ==
    IF debt_to_gdp > I(60) THEN "high_debt"
    ELSE IF inflation > I(25) THEN "high_inflation"
    ELSE IF gdp < Mul(self.initial_gdp, D(98, 100)) THEN "recession"
    ELSE IF gdp > Mul(self.initial_gdp, D(105, 100)) THEN "boom"
    ELSE "normal"

\* get_multipliers with the high_debt row missing (it falls to the default).
get_multipliers_NoHighDebt(economic_condition) ==
    IF economic_condition = "recession" THEN <<D(8, 10), D(5, 10)>>
    ELSE IF economic_condition = "boom" THEN <<D(4, 10), D(2, 10)>>
    ELSE IF economic_condition = "high_inflation" THEN <<D(2, 10), D(1, 10)>>
    ELSE <<D(6, 10), D(3, 10)>>

\* get_multipliers with the high_inflation row missing (it falls to the
\* default).
get_multipliers_NoHighInflation(economic_condition) ==
    IF economic_condition = "recession" THEN <<D(8, 10), D(5, 10)>>
    ELSE IF economic_condition = "boom" THEN <<D(4, 10), D(2, 10)>>
    ELSE IF economic_condition = "high_debt" THEN <<D(3, 10), D(1, 10)>>
    ELSE <<D(6, 10), D(3, 10)>>

\* <<spending_multiplier, tax_multiplier>>
get_multipliers(economic_condition) ==
    IF economic_condition = "recession" THEN <<D(8, 10), D(5, 10)>>
    ELSE IF economic_condition = "boom" THEN <<D(4, 10), D(2, 10)>>
    ELSE IF economic_condition = "high_debt" THEN <<D(3, 10), D(1, 10)>>
    ELSE IF economic_condition = "high_inflation" THEN <<D(2, 10), D(1, 10)>>
    ELSE <<D(6, 10), D(3, 10)>>

calculate_fiscal_incidence(tax_change, spending_change, progressive_tax, pro_poor_spending, gini, poor_share, rich_share, economic_condition) ==
    LET tax_part ==
            IF progressive_tax /\ tax_change > 0
            THEN -Mul(D(5, 10), DivI(tax_change, 10))
            ELSE IF ~progressive_tax /\ tax_change > 0
            THEN Mul(D(3, 10), DivI(tax_change, 10))
            ELSE 0
        spend_part ==
            IF pro_poor_spending /\ spending_change > 0
            THEN -Mul(D(8, 10), DivI(spending_change, 10))
            ELSE IF ~pro_poor_spending /\ spending_change > 0
            THEN -Mul(D(2, 10), DivI(spending_change, 10))
            ELSE 0
        distribution_impact == tax_part + spend_part
        new_gini == Max(I(20), Min(I(60), gini + distribution_impact * 2))
        equality_gain == Mul(Abs(distribution_impact), D(5, 10))
        inequality_gain == Mul(distribution_impact, D(3, 10))
    IN  [ distribution_impact |-> distribution_impact,
          new_gini |-> new_gini,
          new_poor_share |->
              IF distribution_impact < 0
              THEN Min(I(30), poor_share + equality_gain)
              ELSE Max(I(10), poor_share - inequality_gain),
          new_rich_share |->
              IF distribution_impact < 0
              THEN Max(I(40), rich_share - equality_gain)
              ELSE Min(I(70), rich_share + inequality_gain) ]

\* calculate_fiscal_impulse without the clamp to [-5, 5].
calculate_fiscal_impulse_Unclamped(self, spending_change, tax_change, output_gap, structural_balance, economic_condition) ==
    LET discretionary_stimulus == spending_change - Mul(tax_change, D(7, 10))
        cyclical_component == Mul(-output_gap, self.automatic_stabilizers)
        divisor == IF economic_condition = "recession" THEN 5
                   ELSE IF economic_condition = "boom" THEN 8
                   ELSE 6
        fiscal_impulse ==
            Div(discretionary_stimulus, I(divisor)) + cyclical_component
    IN  [ fiscal_impulse |-> fiscal_impulse,
          new_structural_balance |-> structural_balance - fiscal_impulse,
          discretionary_stimulus |-> discretionary_stimulus,
          divisor |-> divisor ]

calculate_fiscal_impulse(self, spending_change, tax_change, output_gap, structural_balance, economic_condition) ==
    LET discretionary_stimulus == spending_change - Mul(tax_change, D(7, 10))
        cyclical_component == Mul(-output_gap, self.automatic_stabilizers)
        divisor == IF economic_condition = "recession" THEN 5
                   ELSE IF economic_condition = "boom" THEN 8
                   ELSE 6
        fiscal_impulse ==
            Max(-I(5), Min(I(5), Div(discretionary_stimulus, I(divisor))
                                   + cyclical_component))
    IN  [ fiscal_impulse |-> fiscal_impulse,
          new_structural_balance |-> structural_balance - fiscal_impulse,
          discretionary_stimulus |-> discretionary_stimulus,
          divisor |-> divisor ]

\* calculate_reform_boost without the cap of 2.0 on the time multiplier.
calculate_reform_boost_Uncapped(year, poverty_rate, informal_share) ==
    LET base_boost == D(2, 10)
        time_multiplier == I(1) + year * D(3, 10)
        poverty_effect == Max(0, DivI(poverty_rate - I(20), 100))
        informal_effect == Max(0, DivI(informal_share - I(30), 100))
    IN  Mul(Mul(base_boost, time_multiplier),
            I(1) + poverty_effect + informal_effect)

calculate_reform_boost(year, poverty_rate, informal_share) ==
    LET base_boost == D(2, 10)
        time_multiplier == Min(I(2), I(1) + year * D(3, 10))
        poverty_effect == Max(0, DivI(poverty_rate - I(20), 100))
        informal_effect == Max(0, DivI(informal_share - I(30), 100))
    IN  Mul(Mul(base_boost, time_multiplier),
            I(1) + poverty_effect + informal_effect)

\* monetary_policy_reaction without the cap of 4.0 on the hawkish rate rise.
monetary_policy_reaction_HawkishUncapped(self, fiscal_impact, inflation, economic_condition, response_type, structural_reform) ==
    LET inflation_gap == inflation - self.inflation_target
        reform_effect == IF structural_reform THEN D(2, 10) ELSE 0
        rate_change ==
            IF response_type = "hawkish"
            THEN IF inflation_gap > I(5)
                 THEN Mul(inflation_gap, D(5, 10)) - reform_effect
                 ELSE IF inflation_gap > I(2)
                 THEN Mul(inflation_gap, D(3, 10)) - reform_effect
                 ELSE 0
            ELSE IF response_type = "dovish"
            THEN IF inflation_gap > I(10)
                 THEN Mul(inflation_gap, D(2, 10)) - reform_effect
                 ELSE IF inflation_gap > I(5)
                 THEN Mul(inflation_gap, D(1, 10)) - reform_effect
                 ELSE 0
            ELSE IF inflation_gap > I(8)
                 THEN Mul(inflation_gap, D(4, 10)) - reform_effect
                 ELSE IF inflation_gap > I(4)
                 THEN Mul(inflation_gap, D(25, 100)) - reform_effect
                 ELSE IF economic_condition = "recession" /\ inflation_gap < I(2)
                 THEN -I(1) - reform_effect
                 ELSE 0
    IN  [ monetary_impact |-> Mul(-rate_change, D(2, 10) + reform_effect),
          new_policy_rate |-> Max(I(12), self.policy_rate + rate_change),
          new_inflation |->
              inflation - Mul(rate_change, D(3, 10) + reform_effect),
          rate_change |-> rate_change ]

\* monetary_policy_reaction with a rate rise feeding inflation, ten times as
\* strongly, instead of reducing it.
monetary_policy_reaction_Destabilising(self, fiscal_impact, inflation, economic_condition, response_type, structural_reform) ==
    LET inflation_gap == inflation - self.inflation_target
        reform_effect == IF structural_reform THEN D(2, 10) ELSE 0
        rate_change ==
            IF response_type = "hawkish"
            THEN IF inflation_gap > I(5)
                 THEN Min(I(4), Mul(inflation_gap, D(5, 10))) - reform_effect
                 ELSE IF inflation_gap > I(2)
                 THEN Mul(inflation_gap, D(3, 10)) - reform_effect
                 ELSE 0
            ELSE IF response_type = "dovish"
            THEN IF inflation_gap > I(10)
                 THEN Mul(inflation_gap, D(2, 10)) - reform_effect
                 ELSE IF inflation_gap > I(5)
                 THEN Mul(inflation_gap, D(1, 10)) - reform_effect
                 ELSE 0
            ELSE IF inflation_gap > I(8)
                 THEN Mul(inflation_gap, D(4, 10)) - reform_effect
                 ELSE IF inflation_gap > I(4)
                 THEN Mul(inflation_gap, D(25, 100)) - reform_effect
                 ELSE IF economic_condition = "recession" /\ inflation_gap < I(2)
                 THEN -I(1) - reform_effect
                 ELSE 0
    IN  [ monetary_impact |-> Mul(-rate_change, D(2, 10) + reform_effect),
          new_policy_rate |-> Max(I(12), self.policy_rate + rate_change),
          new_inflation |->
              inflation + Mul(rate_change, I(3) + reform_effect),
          rate_change |-> rate_change ]

monetary_policy_reaction(self, fiscal_impact, inflation, economic_condition, response_type, structural_reform) ==
    LET inflation_gap == inflation - self.inflation_target
        reform_effect == IF structural_reform THEN D(2, 10) ELSE 0
        rate_change ==
            IF response_type = "hawkish"
            THEN IF inflation_gap > I(5)
                 THEN Min(I(4), Mul(inflation_gap, D(5, 10))) - reform_effect
                 ELSE IF inflation_gap > I(2)
                 THEN Mul(inflation_gap, D(3, 10)) - reform_effect
                 ELSE 0
            ELSE IF response_type = "dovish"
            THEN IF inflation_gap > I(10)
                 THEN Mul(inflation_gap, D(2, 10)) - reform_effect
                 ELSE IF inflation_gap > I(5)
                 THEN Mul(inflation_gap, D(1, 10)) - reform_effect
                 ELSE 0
            ELSE IF inflation_gap > I(8)
                 THEN Mul(inflation_gap, D(4, 10)) - reform_effect
                 ELSE IF inflation_gap > I(4)
                 THEN Mul(inflation_gap, D(25, 100)) - reform_effect
                 ELSE IF economic_condition = "recession" /\ inflation_gap < I(2)
                 THEN -I(1) - reform_effect
                 ELSE 0
    IN  [ monetary_impact |-> Mul(-rate_change, D(2, 10) + reform_effect),
          new_policy_rate |-> Max(I(12), self.policy_rate + rate_change),
          new_inflation |->
              inflation - Mul(rate_change, D(3, 10) + reform_effect),
          rate_change |-> rate_change ]

exchange_rate_dynamics(self, fiscal_impact, current_account, oil_revenue, reserves, policy_rate, structural_reform) ==
    LET current_account_gap ==
            Div(current_account, Mul(self.initial_gdp, D(1, 10)))
        exchange_pressure == -current_account_gap * 50
        oil_effect ==
            Div(oil_revenue - self.oil_revenue, self.oil_revenue) * (-100)
        interest_effect == (policy_rate - I(6)) * (-2)
        reserve_adequacy == Div(reserves, Mul(self.initial_gdp, D(1, 10)))
        reserve_effect == IF reserve_adequacy < I(3) THEN I(50)
                          ELSE IF reserve_adequacy < I(6) THEN I(20)
                          ELSE 0
        reform_effect == IF structural_reform THEN -I(20) ELSE 0
        total_pressure == exchange_pressure + oil_effect + interest_effect
                          + reserve_effect + reform_effect
        exchange_rate_change ==
            Max(-I(20), Min(I(20), DivI(total_pressure, 10)))
        intervention_intensity ==
            Min(I(1), DivI(Abs(exchange_rate_change), 10))
        reserves_change ==
            Mul(Mul(-intervention_intensity, reserves), D(1, 10))
    IN  [ exchange_impact |->
              IF exchange_rate_change > I(5) THEN -I(1)
              ELSE IF exchange_rate_change < -I(5) THEN D(5, 10)
              ELSE 0,
          new_exchange_rate |->
              Mul(self.exchange_rate, I(1) + DivI(exchange_rate_change, 100)),
          new_reserves |-> Max(I(5), reserves + reserves_change),
          trade_balance_effect |->
              IF exchange_rate_change > 0 THEN D(3, 10) ELSE -D(2, 10),
          exchange_rate_change |-> exchange_rate_change,
          reserve_effect |-> reserve_effect ]

\* calculate_risk_premium without the floor at 0.
calculate_risk_premium_NoFloor(self, debt_to_gdp, reserves, structural_reform) ==
    LET debt_premium ==
            IF debt_to_gdp > I(50)
            THEN Mul(debt_to_gdp - I(50), D(15, 100))
            ELSE 0
        reserve_cover ==
            Div(reserves,
                DivI(Mul(self.initial_gdp, self.imports_gdp_ratio), 12))
        reserve_premium == IF reserve_cover < I(3) THEN I(3)
                           ELSE IF reserve_cover < I(6) THEN D(15, 10)
                           ELSE 0
        reform_discount == IF structural_reform THEN -I(2) ELSE 0
    IN  debt_premium + reserve_premium + reform_discount

calculate_risk_premium(self, debt_to_gdp, reserves, structural_reform) ==
    LET debt_premium ==
            IF debt_to_gdp > I(50)
            THEN Mul(debt_to_gdp - I(50), D(15, 100))
            ELSE 0
        reserve_cover ==
            Div(reserves,
                DivI(Mul(self.initial_gdp, self.imports_gdp_ratio), 12))
        reserve_premium == IF reserve_cover < I(3) THEN I(3)
                           ELSE IF reserve_cover < I(6) THEN D(15, 10)
                           ELSE 0
        reform_discount == IF structural_reform THEN -I(2) ELSE 0
    IN  Max(0, debt_premium + reserve_premium + reform_discount)

\* ------------------------------------------------------------------------
\* calculate_impact
\* ------------------------------------------------------------------------

\* Line 102: the debt_to_gdp argument of the call of
\* assess_economic_condition that classifies the initial state.
initial_debt_to_gdp_argument(self) == Div(self.initial_debt, self.initial_gdp)

\* The locals of calculate_impact before the yearly loop.
Prologue(self) ==
    LET gdp == self.initial_gdp
        debt == self.initial_debt
        inflation == self.current_inflation
        imports == Mul(gdp, self.imports_gdp_ratio)
        exports == Mul(gdp, self.exports_gdp_ratio)
        economic_condition ==
            assess_economic_condition(self, gdp, initial_debt_to_gdp_argument(self), inflation)
    IN  [ gdp |-> gdp,
          debt |-> debt,
          non_oil_revenue |-> self.non_oil_revenue,
          oil_revenue |-> self.oil_revenue,
          spending |-> self.total_spending,
          policy_rate |-> self.policy_rate,
          inflation |-> inflation,
          exchange_rate |-> self.exchange_rate,
          foreign_reserves |-> self.foreign_reserves,
          poverty_rate |-> self.poverty_rate,
          unemployment_rate |-> self.unemployment_rate,
          informal_share |-> self.informal_sector_share,
          gini_coefficient |-> self.income_inequality_gini,
          poor_share |-> self.poor_consumption_share,
          rich_share |-> self.rich_consumption_share,
          output_gap |-> 0,
          fiscal_impulse |-> 0,
          structural_balance |-> self.cyclically_adjusted_balance,
          imports |-> imports,
          exports |-> exports,
          current_account |-> exports - imports,
          economic_condition |-> economic_condition,
          spending_multiplier |-> get_multipliers(economic_condition)[1],
          tax_multiplier |-> get_multipliers(economic_condition)[2] ]

\* InRangeYears with an off-by-one upper end.
InRangeYears_Inclusive(year, years) == year <= years

\* "for year in range(years)": the loop continues while this holds.
InRangeYears(year, years) == year < years

\* RowYear without the + 1 (0-based year numbers).
RowYear_ZeroBased(year) == year

\* The 'Year' field of the row appended by the iteration with index year.
RowYear(year) == year + 1

\* reform_effects without the test of the structural_reform flag.
reform_effects_Unconditional(structural_reform, tax_change, year, poverty_rate, informal_share) ==
    LET reform_boost ==
            calculate_reform_boost(year, poverty_rate, informal_share)
    IN  [ reform_boost |-> reform_boost,
          effective_tax_change |-> tax_change + reform_boost * 2,
          poverty_rate |-> Max(I(20), poverty_rate - reform_boost * 3),
          informal_share |-> Max(I(30), informal_share - reform_boost * 2) ]

\* The structural-reform block of the iteration.
reform_effects(structural_reform, tax_change, year, poverty_rate, informal_share) ==
    IF structural_reform
    THEN LET reform_boost ==
                 calculate_reform_boost(year, poverty_rate, informal_share)
         IN  [ reform_boost |-> reform_boost,
               effective_tax_change |-> tax_change + reform_boost * 2,
               poverty_rate |-> Max(I(20), poverty_rate - reform_boost * 3),
               informal_share |->
                   Max(I(30), informal_share - reform_boost * 2) ]
    ELSE [ reform_boost |-> 0,
           effective_tax_change |-> tax_change,
           poverty_rate |-> poverty_rate,
           informal_share |-> informal_share ]

\* The oil price of the year.
oil_price_of(self, oil_price_shock) ==
    Mul(self.oil_price, I(1) + DivI(oil_price_shock, 100))

\* oil_revenue_of with the shock applied with the wrong sign.
oil_revenue_of_WrongSign(self, oil_price_shock) ==
    Mul(Mul(self.oil_price, I(1) - DivI(oil_price_shock, 100)),
        self.oil_revenue_per_dollar)

\* The oil revenue of the year.
oil_revenue_of(self, oil_price_shock) ==
    Mul(oil_price_of(self, oil_price_shock), self.oil_revenue_per_dollar)

\* non_oil_revenue_of without the growth factor.
non_oil_revenue_of_NoGrowth(non_oil_revenue, effective_tax_change, growth_assumption) ==
    Mul(non_oil_revenue, I(1) + DivI(effective_tax_change, 100))

\* The non-oil revenue of the year, from last year's.
non_oil_revenue_of(non_oil_revenue, effective_tax_change, growth_assumption) ==
    Mul(Mul(non_oil_revenue, I(1) + DivI(effective_tax_change, 100)),
        I(1) + DivI(growth_assumption, 100))

\* The iteration is computed in the code's order, in blocks; each block sees
\* the locals loc before the iteration and the results a, b, ... of the blocks
\* before it.

\* Lines 109-151 and 156: reform effects, fiscal incidence, fiscal impulse, oil
\* revenue, spending and the prior debt ratio.
BlockA(self, inp, loc, year) ==
    [ ref |-> reform_effects(inp.structural_reform, inp.tax_change, year, loc.poverty_rate, loc.informal_share),
      inc |-> calculate_fiscal_incidence(inp.tax_change, inp.spending_change, inp.progressive_tax, inp.pro_poor_spending, loc.gini_coefficient, loc.poor_share, loc.rich_share, loc.economic_condition),
      imp |-> calculate_fiscal_impulse(self, inp.spending_change, inp.tax_change, loc.output_gap, loc.structural_balance, loc.economic_condition),
      current_oil_price |-> oil_price_of(self, inp.oil_price_shock),
      oil_revenue |-> oil_revenue_of(self, inp.oil_price_shock),
      spending |->
          Mul(Mul(loc.spending, I(1) + DivI(inp.spending_change, 100)),
              IF inp.structural_reform THEN D(11, 10) ELSE I(1)),
      debt_to_gdp |-> Div(loc.debt, loc.gdp) * 100 ]

\* BlockB with the risk premium taken on the initial reserves instead of the
\* reserves left by the year before.
BlockB_InitialReserves(self, inp, loc, a) ==
    LET non_oil_revenue ==
            non_oil_revenue_of(loc.non_oil_revenue, a.ref.effective_tax_change, inp.growth_assumption)
        risk_premium ==
            calculate_risk_premium(self, a.debt_to_gdp, self.foreign_reserves, inp.structural_reform)
    IN  [ non_oil_revenue |-> non_oil_revenue,
          total_revenue |-> a.oil_revenue + non_oil_revenue,
          risk_premium |-> risk_premium,
          effective_interest_rate |-> loc.policy_rate + risk_premium ]

\* Lines 142-143 and 157-158: non-oil and total revenue, risk premium and
\* effective interest rate.
BlockB(self, inp, loc, a) ==
    LET non_oil_revenue ==
            non_oil_revenue_of(loc.non_oil_revenue, a.ref.effective_tax_change, inp.growth_assumption)
        risk_premium ==
            calculate_risk_premium(self, a.debt_to_gdp, loc.foreign_reserves, inp.structural_reform)
    IN  [ non_oil_revenue |-> non_oil_revenue,
          total_revenue |-> a.oil_revenue + non_oil_revenue,
          risk_premium |-> risk_premium,
          effective_interest_rate |-> loc.policy_rate + risk_premium ]

\* BlockC with the new policy rate built on the policy rate of the year
\* before instead of the rate of the instance.
BlockC_CompoundsPolicyRate(self, inp, loc, a, b) ==
    LET debt_service == Mul(loc.debt, DivI(b.effective_interest_rate, 100))
        fiscal_impact ==
            Div(Mul(Mul(inp.spending_change, a.spending - debt_service),
                    loc.spending_multiplier)
                + Mul(Mul(a.ref.effective_tax_change, b.non_oil_revenue),
                      loc.tax_multiplier),
                loc.gdp)
    IN  [ debt_service |-> debt_service,
          fiscal_impact |-> fiscal_impact,
          crowding_out_effect |->
              Max(0, Div(debt_service
                         - Mul(debt_service, Div(loc.debt, loc.gdp)),
                         loc.gdp)) * 100,
          mon |-> CHOOSE r \in { [ m EXCEPT !.new_policy_rate = Max(I(12), loc.policy_rate + m.rate_change) ] : m \in { monetary_policy_reaction(self, fiscal_impact, loc.inflation, loc.economic_condition, inp.monetary_response, inp.structural_reform) } } : TRUE,
          exr |-> exchange_rate_dynamics(self, fiscal_impact, loc.current_account, a.oil_revenue, loc.foreign_reserves, loc.policy_rate, inp.structural_reform) ]

\* Lines 163-188: debt service, fiscal impact, crowding out, monetary policy
\* reaction and exchange rate dynamics.
BlockC(self, inp, loc, a, b) ==
    LET debt_service == Mul(loc.debt, DivI(b.effective_interest_rate, 100))
        fiscal_impact ==
            Div(Mul(Mul(inp.spending_change, a.spending - debt_service),
                    loc.spending_multiplier)
                + Mul(Mul(a.ref.effective_tax_change, b.non_oil_revenue),
                      loc.tax_multiplier),
                loc.gdp)
    IN  [ debt_service |-> debt_service,
          fiscal_impact |-> fiscal_impact,
          crowding_out_effect |->
              Max(0, Div(debt_service
                         - Mul(debt_service, Div(loc.debt, loc.gdp)),
                         loc.gdp)) * 100,
          mon |-> monetary_policy_reaction(self, fiscal_impact, loc.inflation, loc.economic_condition, inp.monetary_response, inp.structural_reform),
          exr |-> exchange_rate_dynamics(self, fiscal_impact, loc.current_account, a.oil_revenue, loc.foreign_reserves, loc.policy_rate, inp.structural_reform) ]

\* BlockD with the exchange-rate impact left out of effective growth.
BlockD_NoExchangeImpact(self, inp, loc, a, c) ==
    LET import_effect ==
            Mul(Mul(-DivI(inp.growth_assumption, 100), self.import_elasticity),
                Div(loc.imports, loc.gdp)) * 100
        export_effect ==
            Mul(Mul(Max(0, Div(c.exr.new_exchange_rate - loc.exchange_rate,
                               loc.exchange_rate)),
                    self.export_elasticity),
                Div(loc.exports, loc.gdp)) * 100
        equality_boost == Mul(a.inc.distribution_impact, D(1, 10))
    IN  [ import_effect |-> import_effect,
          export_effect |-> export_effect,
          net_trade_effect |-> import_effect + export_effect,
          structural_impact |-> a.ref.reform_boost,
          equality_boost |-> equality_boost,
          effective_growth |->
              inp.growth_assumption + c.fiscal_impact + c.mon.monetary_impact
              + (import_effect + export_effect)
              + a.ref.reform_boost + equality_boost - c.crowding_out_effect ]

\* Lines 193-212: net trade effect, equality boost and effective growth.
BlockD(self, inp, loc, a, c) ==
    LET import_effect ==
            Mul(Mul(-DivI(inp.growth_assumption, 100), self.import_elasticity),
                Div(loc.imports, loc.gdp)) * 100
        export_effect ==
            Mul(Mul(Max(0, Div(c.exr.new_exchange_rate - loc.exchange_rate,
                               loc.exchange_rate)),
                    self.export_elasticity),
                Div(loc.exports, loc.gdp)) * 100
        equality_boost == Mul(a.inc.distribution_impact, D(1, 10))
    IN  [ import_effect |-> import_effect,
          export_effect |-> export_effect,
          net_trade_effect |-> import_effect + export_effect,
          structural_impact |-> a.ref.reform_boost,
          equality_boost |-> equality_boost,
          effective_growth |->
              inp.growth_assumption + c.fiscal_impact + c.mon.monetary_impact
              + c.exr.exchange_impact + (import_effect + export_effect)
              + a.ref.reform_boost + equality_boost - c.crowding_out_effect ]

\* BlockE with effective growth applied to gdp as a factor, not as a
\* percentage.
BlockE_GrowthNotPercent(inp, loc, a, b, c, d) ==
    LET deficit == a.spending + c.debt_service - b.total_revenue
    IN  [ output_gap |->
              Mul(d.effective_growth - inp.growth_assumption, D(8, 10)),
          new_unemployment |->
              Max(I(2), loc.unemployment_rate
                        + Mul(-D(5, 10),
                              d.effective_growth - inp.growth_assumption)),
          gdp |-> Mul(loc.gdp, I(1) + d.effective_growth),
          deficit |-> deficit,
          debt |-> loc.debt + deficit ]

\* Lines 217-230: output gap, unemployment, gdp, deficit and debt.
BlockE(inp, loc, a, b, c, d) ==
    LET deficit == a.spending + c.debt_service - b.total_revenue
    IN  [ output_gap |->
              Mul(d.effective_growth - inp.growth_assumption, D(8, 10)),
          new_unemployment |->
              Max(I(2), loc.unemployment_rate
                        + Mul(-D(5, 10),
                              d.effective_growth - inp.growth_assumption)),
          gdp |-> Mul(loc.gdp, I(1) + DivI(d.effective_growth, 100)),
          deficit |-> deficit,
          debt |-> loc.debt + deficit ]

\* BlockF with imports that follow growth one for one (no import elasticity).
BlockF_ImportsUnitElasticity(self, d, e) ==
    IF e.gdp = 0 THEN [ err |-> TRUE ]
    ELSE LET imports ==
                 Mul(Mul(e.gdp, self.imports_gdp_ratio),
                     I(1) + DivI(d.effective_growth, 100))
             exports ==
                 Mul(Mul(e.gdp, self.exports_gdp_ratio),
                     I(1) + DivI(d.export_effect, 100))
         IN  [ err |-> FALSE,
               debt_to_gdp |-> Div(e.debt, e.gdp) * 100,
               imports |-> imports,
               exports |-> exports,
               current_account |-> exports - imports ]

\* Lines 231-236: the new debt ratio and the trade variables.  Line 231
\* divides by the new gdp: err when it is 0 (ZeroDivisionError).
BlockF(self, d, e) ==
    IF e.gdp = 0 THEN [ err |-> TRUE ]
    ELSE LET imports ==
                 Mul(Mul(e.gdp, self.imports_gdp_ratio),
                     I(1) + Mul(DivI(d.effective_growth, 100),
                                self.import_elasticity))
             exports ==
                 Mul(Mul(e.gdp, self.exports_gdp_ratio),
                     I(1) + DivI(d.export_effect, 100))
         IN  [ err |-> FALSE,
               debt_to_gdp |-> Div(e.debt, e.gdp) * 100,
               imports |-> imports,
               exports |-> exports,
               current_account |-> exports - imports ]

\* Lines 238-298: the locals after the iteration (loc), the appended row (rec)
\* and the intermediate values of the iteration that the row does not store
\* (aux).
BlockG(year, loc, a, b, c, d, e, f, economic_condition) ==
    [ err |-> FALSE,
      loc |->
        [ gdp |-> e.gdp,
          debt |-> e.debt,
          non_oil_revenue |-> b.non_oil_revenue,
          oil_revenue |-> a.oil_revenue,
          spending |-> a.spending,
          policy_rate |-> c.mon.new_policy_rate,
          inflation |-> c.mon.new_inflation,
          exchange_rate |-> c.exr.new_exchange_rate,
          foreign_reserves |-> c.exr.new_reserves,
          poverty_rate |-> a.ref.poverty_rate,
          unemployment_rate |-> e.new_unemployment,
          informal_share |-> a.ref.informal_share,
          gini_coefficient |-> a.inc.new_gini,
          poor_share |-> a.inc.new_poor_share,
          rich_share |-> a.inc.new_rich_share,
          output_gap |-> e.output_gap,
          fiscal_impulse |-> a.imp.fiscal_impulse,
          structural_balance |-> a.imp.new_structural_balance,
          imports |-> f.imports,
          exports |-> f.exports,
          current_account |-> f.current_account,
          economic_condition |-> economic_condition,
          spending_multiplier |-> get_multipliers(economic_condition)[1],
          tax_multiplier |-> get_multipliers(economic_condition)[2] ],
      rec |->
        [ Year |-> RowYear(year),
          GDP |-> e.gdp,
          Oil_Revenue |-> a.oil_revenue,
          Non_Oil_Revenue |-> b.non_oil_revenue,
          Total_Revenue |-> b.total_revenue,
          Spending |-> a.spending,
          Debt_Service |-> c.debt_service,
          Deficit |-> e.deficit,
          Debt |-> e.debt,
          Debt_to_GDP |-> f.debt_to_gdp,
          GDP_Growth |-> d.effective_growth,
          Interest_Rate |-> b.effective_interest_rate,
          Policy_Rate |-> c.mon.new_policy_rate,
          Inflation |-> c.mon.new_inflation,
          Exchange_Rate |-> c.exr.new_exchange_rate,
          Foreign_Reserves |-> c.exr.new_reserves,
          Imports |-> f.imports,
          Exports |-> f.exports,
          Current_Account |-> f.current_account,
          Oil_Price |-> a.current_oil_price,
          Economic_Condition |-> economic_condition,
          Crowding_Out_Effect |-> c.crowding_out_effect,
          Monetary_Impact |-> c.mon.monetary_impact,
          Trade_Impact |-> d.net_trade_effect,
          Fiscal_Impact |-> c.fiscal_impact,
          Structural_Impact |-> d.structural_impact,
          Poverty_Rate |-> a.ref.poverty_rate,
          Unemployment_Rate |-> e.new_unemployment,
          Informal_Sector_Share |-> a.ref.informal_share,
          Reform_Boost |-> a.ref.reform_boost,
          Gini_Coefficient |-> a.inc.new_gini,
          Poor_Consumption_Share |-> a.inc.new_poor_share,
          Rich_Consumption_Share |-> a.inc.new_rich_share,
          Distribution_Impact |-> a.inc.distribution_impact,
          Equality_Boost |-> d.equality_boost,
          Fiscal_Impulse |-> a.imp.fiscal_impulse,
          Structural_Balance |-> a.imp.new_structural_balance,
          Output_Gap |-> e.output_gap,
          Discretionary_Stimulus |-> a.imp.discretionary_stimulus ],
      aux |->
        [ effective_tax_change |-> a.ref.effective_tax_change,
          debt_to_gdp_prior |-> a.debt_to_gdp,
          risk_premium |-> b.risk_premium,
          condition_used |-> loc.economic_condition,
          spending_multiplier |-> loc.spending_multiplier,
          tax_multiplier |-> loc.tax_multiplier,
          impulse_divisor |-> a.imp.divisor,
          rate_change |-> c.mon.rate_change,
          exchange_rate_change |-> c.exr.exchange_rate_change,
          exchange_impact |-> c.exr.exchange_impact,
          reserve_effect |-> c.exr.reserve_effect,
          export_effect |-> d.export_effect,
          import_effect |-> d.import_effect,
          gdp_prior |-> loc.gdp,
          debt_prior |-> loc.debt,
          non_oil_revenue_prior |-> loc.non_oil_revenue ] ]

\* One iteration of the yearly loop, from the locals loc and the loop index
\* year (0-based).  err: the iteration raises ZeroDivisionError.  Each block
\* is evaluated once and bound before the next one uses it.
YearBody(self, inp, loc, year) ==
    CHOOSE out \in
      UNION { UNION { UNION { UNION { UNION { UNION {
        { IF f.err THEN [ err |-> TRUE ]
          ELSE BlockG(year, loc, a, b, c, d, e, f, cond) :
          cond \in { IF f.err THEN "none"
                     ELSE assess_economic_condition(self, e.gdp, f.debt_to_gdp, c.mon.new_inflation) } } :
        f \in { BlockF(self, d, e) } } :
        e \in { BlockE(inp, loc, a, b, c, d) } } :
        d \in { BlockD(self, inp, loc, a, c) } } :
        c \in { BlockC(self, inp, loc, a, b) } } :
        b \in { BlockB(self, inp, loc, a) } } :
        a \in { BlockA(self, inp, loc, year) } } : TRUE

\* ------------------------------------------------------------------------
\* State
\* ------------------------------------------------------------------------

VARIABLES
    self,       \* the fields of the NigeriaFiscalMonetaryModel instance
    inp,        \* the arguments of calculate_impact
    loc,        \* the locals of the running call
    year,       \* the loop index of the running call
    results,    \* the rows appended so far by the running call
    aux,        \* per row, the intermediate values of its iteration
    pc,         \* "ready", "loop", "done" or "error" (exception raised)
    returned,   \* the results of the completed calls, oldest first
    twin,       \* a second call that differs in oil_price_shock only
    probe       \* one direct call of assess_economic_condition

vars == <<self, inp, loc, year, results, aux, pc, returned, twin, probe>>

\* Longest horizon (years) that is simulated.
MaxYears == 4

\* Number of calls made with the same arguments.
MaxRuns == 2

\* The ranges of the sidebar sliders.
TaxMin == -20
TaxMax == 50
SpendingMin == -30
SpendingMax == 40
GrowthMin == 0
GrowthMax == 8
OilMin == -50
OilMax == 100

InRange(i) ==
    /\ I(TaxMin) <= i.tax_change /\ i.tax_change <= I(TaxMax)
    /\ I(SpendingMin) <= i.spending_change /\ i.spending_change <= I(SpendingMax)
    /\ I(GrowthMin) <= i.growth_assumption /\ i.growth_assumption <= I(GrowthMax)
    /\ I(OilMin) <= i.oil_price_shock /\ i.oil_price_shock <= I(OilMax)

\* Slider positions inside the declared ranges.
TaxChanges == {TaxMin, 10, TaxMax}
SpendingChanges == {SpendingMin, 5, SpendingMax}
GrowthAssumptions == {GrowthMin, 3, GrowthMax}
OilShocks == {OilMin, 0, OilMax}
Stances == {"automatic", "hawkish", "dovish"}

Args(tc, sc, g, o, mr, sr, pt, pp, y) ==
    [ tax_change |-> I(tc), spending_change |-> I(sc),
      growth_assumption |-> I(g), oil_price_shock |-> I(o),
      monetary_response |-> mr, structural_reform |-> sr,
      progressive_tax |-> pt, pro_poor_spending |-> pp, years |-> y ]

\* Calls the sliders can produce: every combination with the longest
\* horizon, and the shorter horizons without the incidence switches.
ValidInputs ==
    { Args(tc, sc, g, o, mr, sr, pt, pp, MaxYears) :
        tc \in TaxChanges, sc \in SpendingChanges, g \in GrowthAssumptions,
        o \in OilShocks, mr \in Stances, sr \in BOOLEAN, pt \in BOOLEAN,
        pp \in BOOLEAN }
    \cup
    { Args(tc, sc, g, o, "automatic", sr, FALSE, FALSE, y) :
        tc \in TaxChanges, sc \in SpendingChanges, g \in GrowthAssumptions,
        o \in OilShocks, sr \in BOOLEAN, y \in 1..(MaxYears - 1) }

\* Direct calls of calculate_impact with a horizon <= 0 or one value outside
\* its slider range.
InvalidInputs ==
    { Args(10, 5, 3, 0, mr, sr, FALSE, FALSE, y) :
        mr \in Stances, sr \in BOOLEAN, y \in {-1, 0} }
    \cup
    { Args(tc, 5, 3, 0, mr, sr, FALSE, FALSE, y) :
        tc \in {TaxMin - 10, TaxMax + 10}, mr \in Stances, sr \in BOOLEAN,
        y \in 0..MaxYears }
    \cup
    { Args(10, sc, 3, 0, mr, sr, FALSE, FALSE, y) :
        sc \in {SpendingMin - 10, SpendingMax + 10}, mr \in Stances,
        sr \in BOOLEAN, y \in 0..MaxYears }
    \cup
    { Args(10, 5, g, 0, mr, sr, FALSE, FALSE, y) :
        g \in {GrowthMin - 2, GrowthMax + 2}, mr \in Stances, sr \in BOOLEAN,
        y \in 0..MaxYears }
    \cup
    { Args(10, 5, 3, o, mr, sr, FALSE, FALSE, y) :
        o \in {OilMin - 10, OilMax + 10}, mr \in Stances, sr \in BOOLEAN,
        y \in 0..MaxYears }

Inputs == ValidInputs \cup InvalidInputs

NoTwin == [ on |-> FALSE, inp |-> Args(0, 0, 0, 0, "automatic", FALSE, FALSE, FALSE, 0),
            loc |-> <<>>, results |-> <<>> ]

NoProbe == [ gdp |-> 0, debt_to_gdp |-> 0, inflation |-> 0, out |-> "none" ]

Init ==
    /\ self = NewModel
    /\ inp \in Inputs
    /\ loc = <<>>
    /\ year = 0
    /\ results = <<>>
    /\ aux = <<>>
    /\ pc = "ready"
    /\ returned = <<>>
    /\ twin = NoTwin
    /\ probe = NoProbe

\* ------------------------------------------------------------------------
\* Actions
\* ------------------------------------------------------------------------

\* calculate_impact is entered: the locals are initialised from the instance.
Call ==
    /\ pc = "ready"
    /\ loc' = Prologue(self)
    /\ year' = 0
    /\ results' = <<>>
    /\ aux' = <<>>
    /\ pc' = "loop"
    /\ twin' = IF twin.on
               THEN [twin EXCEPT !.loc = Prologue(self), !.results = <<>>]
               ELSE twin
    /\ UNCHANGED <<self, inp, returned, probe>>

\* One iteration of "for year in range(years)".
Iterate ==
    /\ pc = "loop"
    /\ InRangeYears(year, inp.years)
    /\ \E b \in { YearBody(self, inp, loc, year) } :
         IF b.err
         THEN /\ pc' = "error"
              /\ UNCHANGED <<loc, year, results, aux, twin>>
         ELSE /\ loc' = b.loc
              /\ results' = Append(results, b.rec)
              /\ aux' = Append(aux, b.aux)
              /\ year' = year + 1
              /\ pc' = "loop"
              /\ IF twin.on
                 THEN \E t \in { YearBody(self, twin.inp, twin.loc, year) } :
                        twin' = [twin EXCEPT !.loc = t.loc,
                                             !.results = Append(@, t.rec)]
                 ELSE twin' = twin
    /\ UNCHANGED <<self, inp, returned, probe>>

\* Return, had the call stored its final revenue in the instance.
Return_StoresInSelf ==
    /\ pc = "loop"
    /\ ~InRangeYears(year, inp.years)
    /\ returned' = Append(returned, results)
    /\ pc' = "done"
    /\ self' = IF loc = <<>> THEN self
               ELSE [self EXCEPT !.non_oil_revenue = loc.non_oil_revenue]
    /\ UNCHANGED <<inp, loc, year, results, aux, twin, probe>>

\* range(years) is exhausted: the rows are returned.
Return ==
    /\ pc = "loop"
    /\ ~InRangeYears(year, inp.years)
    /\ returned' = Append(returned, results)
    /\ pc' = "done"
    /\ UNCHANGED <<self, inp, loc, year, results, aux, twin, probe>>

\* calculate_impact is called again on the same instance, same arguments.
Recall ==
    /\ pc = "done"
    /\ Len(returned) < MaxRuns
    /\ pc' = "ready"
    /\ UNCHANGED <<self, inp, loc, year, results, aux, returned, twin, probe>>

\* run_enhanced_model is called again with the same arguments: it builds a
\* new instance and calls calculate_impact on it.
Rerun ==
    /\ pc = "done"
    /\ Len(returned) < MaxRuns
    /\ self' = NewModel
    /\ loc' = <<>>
    /\ pc' = "ready"
    /\ UNCHANGED <<inp, year, results, aux, returned, twin, probe>>

Next == Call \/ Iterate \/ Return \/ Recall \/ Rerun

Spec == Init /\ [][Next]_vars

\* ------------------------------------------------------------------------
\* Two calls that differ in oil_price_shock only, run in lockstep
\* ------------------------------------------------------------------------

OilPairs == { p \in OilShocks \X OilShocks : p[1] < p[2] }

InitOil ==
    /\ self = NewModel
    /\ \E tc \in TaxChanges, sc \in SpendingChanges, g \in GrowthAssumptions,
          p \in OilPairs, mr \in Stances, sr \in BOOLEAN :
          /\ inp = Args(tc, sc, g, p[1], mr, sr, FALSE, FALSE, MaxYears)
          /\ twin = [ on |-> TRUE,
                      inp |-> Args(tc, sc, g, p[2], mr, sr, FALSE, FALSE,
                                   MaxYears),
                      loc |-> <<>>, results |-> <<>> ]
    /\ loc = <<>>
    /\ year = 0
    /\ results = <<>>
    /\ aux = <<>>
    /\ pc = "ready"
    /\ returned = <<>>
    /\ probe = NoProbe

SpecOil == InitOil /\ [][Next]_vars

\* ------------------------------------------------------------------------
\* Calls with a horizon one year beyond the default
\* ------------------------------------------------------------------------

\* The default of the parameter years of calculate_impact, the horizon of
\* every call the app makes.
DefaultYears == 5

LongInputs ==
    { Args(tc, sc, g, o, mr, sr, FALSE, FALSE, DefaultYears + 1) :
        tc \in TaxChanges, sc \in SpendingChanges, g \in GrowthAssumptions,
        o \in OilShocks, mr \in Stances, sr \in BOOLEAN }

InitLong ==
    /\ self = NewModel
    /\ inp \in LongInputs
    /\ loc = <<>>
    /\ year = 0
    /\ results = <<>>
    /\ aux = <<>>
    /\ pc = "ready"
    /\ returned = <<>>
    /\ twin = NoTwin
    /\ probe = NoProbe

SpecLong == InitLong /\ [][Next]_vars

\* ------------------------------------------------------------------------
\* The regime classifier called on its own
\* ------------------------------------------------------------------------

ProbeGdp ==
    { I(400), I(441) - 1, I(441), I(450), D(4725, 10), D(4725, 10) + 1, I(500) }

ProbeDebtToGdp == { -I(10), D(3111, 10000), I(31), I(60), I(60) + 1, I(65) }

ProbeInflation == { I(9), I(25), I(25) + 1, I(28) }

InitClassifier ==
    /\ self = NewModel
    /\ inp = Args(0, 0, 0, 0, "automatic", FALSE, FALSE, FALSE, 0)
    /\ loc = <<>>
    /\ year = 0
    /\ results = <<>>
    /\ aux = <<>>
    /\ pc = "probe"
    /\ returned = <<>>
    /\ twin = NoTwin
    /\ probe \in [ gdp : ProbeGdp, debt_to_gdp : ProbeDebtToGdp,
                   inflation : ProbeInflation, out : {"none"} ]

Classify ==
    /\ pc = "probe"
    /\ probe.out = "none"
    /\ probe' = [probe EXCEPT !.out =
                    assess_economic_condition(self, probe.gdp,
                                              probe.debt_to_gdp,
                                              probe.inflation)]
    /\ UNCHANGED <<self, inp, loc, year, results, aux, pc, returned, twin>>

NextClassifier == Classify

SpecClassifier == InitClassifier /\ [][NextClassifier]_vars

\* ------------------------------------------------------------------------
\* Properties
\* ------------------------------------------------------------------------

Rows == 1..Len(results)

\* The rows are numbered 1, 2, ... in order.
NumberedInOrder == \A k \in Rows : results[k].Year = k

\* C1: a call with a horizon of N >= 1 years never raises; while it runs it
\* has appended one row per completed iteration and has not run past N; and
\* when it returns it has exactly N rows whose Year fields are 1..N in order.
C1_ReturnsHorizonRows ==
    (inp.years >= 1) =>
        /\ pc # "error"
        /\ pc = "loop" => (Len(results) = year /\ year <= inp.years)
        /\ pc = "done" =>
             /\ Len(results) = inp.years
             /\ NumberedInOrder
             /\ returned[Len(returned)] = results

C1_Witness ==
    /\ pc = "done"
    /\ inp.years = MaxYears
    /\ Len(results) = MaxYears
    /\ results[MaxYears].Year = MaxYears

C3_ClassifierPriority ==
    probe.out # "none" =>
        probe.out =
            IF probe.debt_to_gdp > I(60) THEN "high_debt"
            ELSE IF probe.inflation > I(25) THEN "high_inflation"
            ELSE IF probe.gdp < I(441) THEN "recession"
            ELSE IF probe.gdp > D(4725, 10) THEN "boom"
            ELSE "normal"

C3_Witness ==
    /\ probe.out = "high_debt"
    /\ probe.debt_to_gdp = I(65)
    /\ probe.inflation > I(25)
    /\ probe.gdp < I(441)

\* The multiplier table of the specification.
TableSpending(c) ==
    CASE c = "recession" -> D(8, 10)
      [] c = "normal" -> D(6, 10)
      [] c = "boom" -> D(4, 10)
      [] c = "high_debt" -> D(3, 10)
      [] c = "high_inflation" -> D(2, 10)

TableTax(c) ==
    CASE c = "recession" -> D(5, 10)
      [] c = "normal" -> D(3, 10)
      [] c = "boom" -> D(2, 10)
      [] c = "high_debt" -> D(1, 10)
      [] c = "high_inflation" -> D(1, 10)

TableDivisor(c) ==
    IF c = "recession" THEN 5 ELSE IF c = "boom" THEN 8 ELSE 6

\* The condition in force when year k starts: the one stored in the row of
\* year k - 1, or the one classified from the initial state.
ConditionBefore(k) ==
    IF k = 1 THEN Prologue(NewModel).economic_condition
    ELSE results[k - 1].Economic_Condition

OutputGapBefore(k) == IF k = 1 THEN 0 ELSE results[k - 1].Output_Gap

\* C4: year k's fiscal impact is computed with the spending and tax
\* multipliers, and year k's fiscal impulse with the divisor, of the condition
\* in force before year k, not of the condition stored in year k's row.
C4_MultipliersLag ==
    \A k \in Rows :
        LET c == ConditionBefore(k)
            r == results[k]
            a == aux[k]
        IN  /\ a.condition_used = c
            /\ r.Fiscal_Impact =
                 Div(Mul(Mul(inp.spending_change, r.Spending - r.Debt_Service),
                         TableSpending(c))
                     + Mul(Mul(a.effective_tax_change, r.Non_Oil_Revenue),
                           TableTax(c)),
                     a.gdp_prior)
            /\ r.Fiscal_Impulse =
                 Max(-I(5), Min(I(5),
                     Div(r.Discretionary_Stimulus, I(TableDivisor(c)))
                     + Mul(-OutputGapBefore(k), D(2, 10))))

\* A year whose own row stores another condition, with other multipliers,
\* than the one its flows were computed with.
C4_Witness ==
    \E k \in Rows :
        /\ k >= 2
        /\ results[k].Economic_Condition # ConditionBefore(k)
        /\ TableSpending(results[k].Economic_Condition)
             # TableSpending(ConditionBefore(k))
        /\ results[k].Fiscal_Impact # 0

C6_ClampedQuantities ==
    \A k \in Rows :
        /\ results[k].Policy_Rate >= I(12)
        /\ results[k].Foreign_Reserves >= I(5)
        /\ I(20) <= results[k].Gini_Coefficient
        /\ results[k].Gini_Coefficient <= I(60)
        /\ -I(5) <= results[k].Fiscal_Impulse
        /\ results[k].Fiscal_Impulse <= I(5)
        /\ -I(20) <= aux[k].exchange_rate_change
        /\ aux[k].exchange_rate_change <= I(20)

\* A year in which the impulse clamp and the gini clamp both bind.
C6_Witness ==
    \E k \in Rows :
        /\ results[k].Fiscal_Impulse = I(5)
        /\ results[k].Gini_Coefficient = I(20)

\* C7 as stated: for inputs inside the slider ranges, the debt_to_gdp passed
\* to the risk-premium computation and the risk premium are both >= 0.
C7_DebtRatioNeverNegative ==
    InRange(inp) =>
        \A k \in Rows :
            /\ aux[k].debt_to_gdp_prior >= 0
            /\ aux[k].risk_premium >= 0

\* C7 amended: the risk premium is >= 0 in every year; the debt_to_gdp passed
\* to its computation is >= 0 whenever the debt stock it is computed from is
\* >= 0 (and gdp > 0).
C7_RiskPremiumNeverNegative ==
    InRange(inp) =>
        \A k \in Rows :
            /\ aux[k].risk_premium >= 0
            /\ (aux[k].debt_prior >= 0 /\ aux[k].gdp_prior > 0)
                 => aux[k].debt_to_gdp_prior >= 0

\* A year whose risk premium is computed from a negative debt ratio.
C7_Witness ==
    /\ InRange(inp)
    /\ \E k \in Rows :
         /\ aux[k].debt_to_gdp_prior < 0
         /\ aux[k].debt_prior < 0
         /\ aux[k].risk_premium >= 0

\* C8: of two calls that differ only in oil_price_shock, the one with the
\* larger shock has the strictly larger oil revenue and total revenue in
\* every year, and the same non-oil revenue.
C8_OilMonotone ==
    twin.on =>
        /\ Len(twin.results) = Len(results)
        /\ \A k \in Rows :
             /\ twin.results[k].Oil_Revenue > results[k].Oil_Revenue
             /\ twin.results[k].Total_Revenue > results[k].Total_Revenue
             /\ twin.results[k].Non_Oil_Revenue = results[k].Non_Oil_Revenue

C8_Witness ==
    /\ twin.on
    /\ twin.inp.oil_price_shock > inp.oil_price_shock
    /\ Len(results) = MaxYears
    /\ Len(twin.results) = MaxYears
    /\ twin.results[MaxYears].GDP # results[MaxYears].GDP

\* The scenario of the end-to-end example, with any horizon and stance.
IsExampleScenario ==
    /\ inp.tax_change = I(10)
    /\ inp.spending_change = I(5)
    /\ inp.growth_assumption = I(3)
    /\ inp.oil_price_shock = 0
    /\ ~inp.structural_reform

NonOilRevenueBefore(k) ==
    IF k = 1 THEN I(35) ELSE results[k - 1].Non_Oil_Revenue

\* C9: in the example scenario year 1 has non_oil_revenue 39.655, oil_revenue
\* 24.75 and total_revenue 64.405; in every year of every call
\* non_oil_revenue is last year's times (1 + effective_tax_change/100) times
\* (1 + growth_assumption/100), and total_revenue = oil_revenue +
\* non_oil_revenue.
C9_RevenueExample ==
    /\ (IsExampleScenario /\ Len(results) >= 1) =>
         /\ results[1].Non_Oil_Revenue = D(39655, 1000)
         /\ results[1].Oil_Revenue = D(2475, 100)
         /\ results[1].Total_Revenue = D(64405, 1000)
    /\ \A k \in Rows :
         /\ results[k].Non_Oil_Revenue =
              Mul(Mul(NonOilRevenueBefore(k),
                      I(1) + DivI(aux[k].effective_tax_change, 100)),
                  I(1) + DivI(inp.growth_assumption, 100))
         /\ results[k].Total_Revenue =
              results[k].Oil_Revenue + results[k].Non_Oil_Revenue

C9_Witness ==
    /\ IsExampleScenario
    /\ pc = "done"
    /\ Len(results) = MaxYears
    /\ results[1].Total_Revenue = D(64405, 1000)

\* The call is one the specification calls invalid.
IsInvalidCall == inp.years <= 0 \/ ~InRange(inp)

\* C10 as stated: an invalid call never returns normally and never appends a
\* row.
C10_InvalidCallRejected ==
    IsInvalidCall => (pc # "done" /\ results = <<>>)

\* C10 amended: calculate_impact validates nothing.  An invalid call never
\* raises; it returns normally, with an empty sequence when the horizon is
\* <= 0 and with one row per year of the horizon otherwise.
C10_InvalidCallRunsNormally ==
    IsInvalidCall =>
        /\ pc # "error"
        /\ pc = "done" =>
             /\ Len(results) = Max(0, inp.years)
             /\ NumberedInOrder
             /\ returned[Len(returned)] = results

C10_Witness ==
    /\ pc = "done"
    /\ inp.years = 0
    /\ ~InRange(inp)
    /\ returned = << <<>> >>

\* ------------------------------------------------------------------------
\* The yearly step and the loop index
\* ------------------------------------------------------------------------

\* The loop is about to run an iteration from the current locals.
Stepping == pc = "loop" /\ InRangeYears(year, inp.years)

\* What an iteration produces, apart from the Year number of its row.
StepOutcome(b) ==
    IF b.err THEN b
    ELSE [ loc |-> b.loc, rec |-> [b.rec EXCEPT !.Year = 0], aux |-> b.aux ]

\* The iteration run from the current locals produces the same outcome with
\* loop index y1 as with loop index y2.
SameStep(y1, y2) ==
    \E b1 \in { YearBody(self, inp, loc, y1) } :
      \E b2 \in { YearBody(self, inp, loc, y2) } :
        StepOutcome(b1) = StepOutcome(b2)

\* C11 (as stated): the yearly step is a function of the prior state, the
\* parameters and the policy inputs only; taken from the same locals it
\* produces the same next state and channel outputs whatever the loop index.
C11_StepIgnoresYearIndex == Stepping => SameStep(year, year + 1)

\* C11 (amended): without structural reform the step does not depend on the
\* loop index; with structural reform it does, through the time multiplier
\* min(2.0, 1 + year * 0.3) of the reform boost, for every index below 4, and
\* no longer from index 4 on, where the multiplier stays at 2.0.
C11_StepIgnoresYearIndexUnlessReform ==
    Stepping =>
        IF inp.structural_reform
        THEN /\ year < 4 => ~SameStep(year, year + 1)
             /\ SameStep(4, 5)
        ELSE SameStep(year, year + 1)

\* A call with structural reform, inside the slider ranges, has run two
\* iterations and the next one depends on its loop index.
C11_Witness ==
    /\ Stepping
    /\ InRange(inp)
    /\ inp.structural_reform
    /\ Len(results) = 2
    /\ ~SameStep(year, year + 1)

\* ------------------------------------------------------------------------
\* Growth and its components
\* ------------------------------------------------------------------------

\* gdp(k-1): the gdp before the iteration that appended row k.
GdpBefore(k) == IF k = 1 THEN self.initial_gdp ELSE results[k - 1].GDP

\* The growth components that a row records, summed as the app's growth
\* identity sums them.
RecordedGrowth(k) ==
    inp.growth_assumption + results[k].Monetary_Impact
    + results[k].Fiscal_Impact + results[k].Trade_Impact
    + results[k].Structural_Impact + results[k].Equality_Boost
    - results[k].Crowding_Out_Effect

C13_GrowthIsSumOfRecordedComponents ==
    InRange(inp) => \A k \in Rows : results[k].GDP_Growth = RecordedGrowth(k)

\* ------------------------------------------------------------------------
\* The boundary conditions the app documents
\* ------------------------------------------------------------------------

\* C14: Debt_to_GDP never exceeds 100 (%) in any row, for every input in the
\* slider ranges, over the simulated horizon (the documented "Maximum
\* debt/GDP ratio: 100%").
C14_DebtRatioAtMost100 ==
    InRange(inp) => \A k \in Rows : results[k].Debt_to_GDP <= I(100)

TaxTerm(k) ==
    Div(Mul(Mul(aux[k].effective_tax_change, results[k].Non_Oil_Revenue),
            aux[k].tax_multiplier),
        aux[k].gdp_prior)

\* C16: tax cuts stimulate and tax hikes contract: the tax term of the
\* fiscal impact on GDP is negative for a tax increase (tax_change > 0) and
\* positive for a tax cut (tax_change < 0).
C16_TaxHikesContract ==
    InRange(inp) =>
        \A k \in Rows : /\ inp.tax_change > 0 => TaxTerm(k) < 0
                        /\ inp.tax_change < 0 => TaxTerm(k) > 0

\* ------------------------------------------------------------------------
\* Debt accumulation
\* ------------------------------------------------------------------------

\* debt(k-1), reserves(k-1) and policy_rate(k-1): the values before the
\* iteration that appended row k.
DebtBefore(k) == IF k = 1 THEN self.initial_debt ELSE results[k - 1].Debt

ReservesBefore(k) ==
    IF k = 1 THEN self.foreign_reserves ELSE results[k - 1].Foreign_Reserves

PolicyRateBefore(k) ==
    IF k = 1 THEN self.policy_rate ELSE results[k - 1].Policy_Rate

\* The risk premium of the iteration that appended row k, from the values
\* of the year before.
RiskPremiumBefore(k) ==
    calculate_risk_premium(self, Div(DebtBefore(k), GdpBefore(k)) * 100, ReservesBefore(k), inp.structural_reform)

\* C17: debt accumulation uses prior-year values in the stated order: the
\* risk premium of year t comes from debt(t-1)/gdp(t-1) and reserves(t-1),
\* debt_service(t) = debt(t-1) * (policy_rate + risk_premium)/100,
\* deficit(t) = spending(t) + debt_service(t) - total_revenue(t),
\* debt(t) = debt(t-1) + deficit(t), and the recorded Debt_to_GDP is
\* debt(t)/gdp(t)*100, computed after the GDP update.
C17_DebtAccumulation ==
    \A k \in Rows :
        /\ aux[k].debt_to_gdp_prior = Div(DebtBefore(k), GdpBefore(k)) * 100
        /\ aux[k].risk_premium = RiskPremiumBefore(k)
        /\ results[k].Interest_Rate = PolicyRateBefore(k) + aux[k].risk_premium
        /\ results[k].Debt_Service =
               Mul(DebtBefore(k), DivI(results[k].Interest_Rate, 100))
        /\ results[k].Deficit =
               results[k].Spending + results[k].Debt_Service
               - results[k].Total_Revenue
        /\ results[k].Debt = DebtBefore(k) + results[k].Deficit
        /\ results[k].Debt_to_GDP = Div(results[k].Debt, results[k].GDP) * 100

\* A call inside the slider ranges has returned a row, not the first, whose
\* risk premium is positive, follows a fall of the reserves, and differs from
\* the premium that the values after the update would give.
C17_Witness ==
    /\ pc = "done"
    /\ InRange(inp)
    /\ \E k \in Rows :
          /\ k > 1
          /\ ReservesBefore(k) < self.foreign_reserves
          /\ aux[k].risk_premium > 0
          /\ aux[k].risk_premium #
                calculate_risk_premium(self, results[k].Debt_to_GDP, results[k].Foreign_Reserves, inp.structural_reform)
          /\ results[k].Debt # DebtBefore(k)

\* ------------------------------------------------------------------------
\* The exchange rate and trade
\* ------------------------------------------------------------------------

\* Exchange_Rate(k-1): the exchange rate before the iteration of row k.
ExchangeRateBefore(k) ==
    IF k = 1 THEN self.exchange_rate ELSE results[k - 1].Exchange_Rate

\* C18: the exchange rate compounds year on year: Exchange_Rate(t) =
\* Exchange_Rate(t-1) * (1 + exchange_rate_change(t)/100), from the initial
\* exchange rate, with exchange_rate_change(t) within -20..20.
C18_ExchangeRateCompounds ==
    \A k \in Rows :
        /\ -I(20) <= aux[k].exchange_rate_change
        /\ aux[k].exchange_rate_change <= I(20)
        /\ results[k].Exchange_Rate =
               Mul(ExchangeRateBefore(k),
                   I(1) + DivI(aux[k].exchange_rate_change, 100))

\* C19: in every year the export effect is max(0, exchange_rate_change) *
\* export_elasticity (zero for an appreciation, 0.6 per percentage point of
\* depreciation), and exports(t) = gdp(t) * export_ratio
\* * (1 + export_effect/100).
C19_ExportEffect ==
    \A k \in Rows :
        /\ aux[k].export_effect =
               Mul(Max(0, aux[k].exchange_rate_change), self.export_elasticity)
        /\ results[k].Exports =
               Mul(Mul(results[k].GDP, self.exports_gdp_ratio),
                   I(1) + DivI(aux[k].export_effect, 100))

\* imports(k) as a level on gdp(k) scaled by the growth rate g.
ImportsAt(k, g) ==
    Mul(Mul(results[k].GDP, self.imports_gdp_ratio),
        I(1) + Mul(DivI(g, 100), self.import_elasticity))

\* C20 (as stated): imports(t) = gdp(t) * import_ratio
\* * (1 + growth_assumption/100 * import_elasticity): the import level scales
\* with the exogenous growth assumption, not with the realised growth.
C20_ImportsFollowGrowthAssumption ==
    \A k \in Rows : results[k].Imports = ImportsAt(k, inp.growth_assumption)

\* C20 (amended): imports(t) = gdp(t) * import_ratio
\* * (1 + effective_growth(t)/100 * import_elasticity): the import level
\* scales with the year's realised growth, the GDP_Growth of the row.
C20_ImportsFollowEffectiveGrowth ==
    \A k \in Rows : results[k].Imports = ImportsAt(k, results[k].GDP_Growth)

\* A call inside the slider ranges has returned a row whose realised growth
\* differs from the growth assumption, and so do its imports from the level
\* the growth assumption would give.
C20_Witness ==
    /\ pc = "done"
    /\ InRange(inp)
    /\ \E k \in Rows :
          /\ results[k].GDP_Growth # inp.growth_assumption
          /\ results[k].Imports # ImportsAt(k, inp.growth_assumption)
          /\ results[k].Imports > 0

\* ------------------------------------------------------------------------
\* Reserve cover
\* ------------------------------------------------------------------------

\* Months of import spending that the reserves cover, as
\* calculate_risk_premium measures it.
ReserveCover(reserves) ==
    Div(reserves, DivI(Mul(self.initial_gdp, self.imports_gdp_ratio), 12))

\* C21: the reserve effect added to the exchange-rate pressure is 50 when
\* the reserve cover is below 3, 20 when it is at least 3 and below 6, and 0
\* otherwise, the reserve cover being reserves / (initial_gdp * import_ratio
\* / 12), the measure of the risk-premium module, so that the two modules
\* agree on the cover band of the reserves.
C21_ReserveEffectByCover ==
    \A k \in Rows :
        aux[k].reserve_effect =
            IF ReserveCover(ReservesBefore(k)) < I(3) THEN I(50)
            ELSE IF ReserveCover(ReservesBefore(k)) < I(6) THEN I(20)
            ELSE 0

\* ------------------------------------------------------------------------
\* The policy rate
\* ------------------------------------------------------------------------

\* C22: the policy rate is recomputed each year from the original baseline,
\* not compounded: policy_rate(t) = max(12.0, base_policy_rate +
\* rate_change(t)) with the fixed initial base rate, whatever policy_rate(t-1)
\* was; in a year whose rate_change is 0 it equals the base rate.
C22_PolicyRateFromBaseline ==
    \A k \in Rows :
        /\ results[k].Policy_Rate =
               Max(I(12), self.policy_rate + aux[k].rate_change)
        /\ aux[k].rate_change = 0 => results[k].Policy_Rate = self.policy_rate

\* A call inside the slider ranges has returned a row, not the first, whose
\* policy rate is the base rate plus the year's change although the rate of
\* the year before was another one.
C22_Witness ==
    /\ pc = "done"
    /\ InRange(inp)
    /\ \E k \in Rows :
          /\ k > 1
          /\ aux[k].rate_change # 0
          /\ PolicyRateBefore(k) # self.policy_rate
          /\ results[k].Policy_Rate = self.policy_rate + aux[k].rate_change
          /\ results[k].Policy_Rate # PolicyRateBefore(k) + aux[k].rate_change

\* ------------------------------------------------------------------------
\* Divisions by gdp
\* ------------------------------------------------------------------------

\* C23 (as stated): for every input in the declared ranges and every year of
\* the horizon, gdp stays strictly positive (effective_growth > -100) and
\* total_revenue stays strictly positive, so that no division by gdp is a
\* division by zero.
C23_GdpStaysPositive ==
    InRange(inp) =>
        /\ pc # "error"
        /\ \A k \in Rows : /\ results[k].GDP > 0
                            /\ results[k].GDP_Growth > -I(100)
                            /\ results[k].Total_Revenue > 0

\* C23 (amended): total_revenue stays strictly positive in every year and no
\* division by gdp is a division by zero; gdp stays strictly positive
\* (effective_growth > -100) through the default horizon of 5 years, and not
\* beyond it: there is no floor on growth.
C23_GdpPositiveWithinDefaultHorizon ==
    InRange(inp) =>
        /\ pc # "error"
        /\ \A k \in Rows : /\ results[k].Total_Revenue > 0
                            /\ k <= DefaultYears =>
                                   /\ results[k].GDP > 0
                                   /\ results[k].GDP_Growth > -I(100)

\* A call inside the slider ranges has returned six rows: gdp is positive
\* and shrinking in the fifth and negative in the sixth.
C23_Witness ==
    /\ pc = "done"
    /\ InRange(inp)
    /\ Len(results) = DefaultYears + 1
    /\ results[DefaultYears].GDP > 0
    /\ results[DefaultYears].GDP_Growth < 0
    /\ results[DefaultYears + 1].GDP_Growth < -I(100)
    /\ results[DefaultYears + 1].GDP < 0

\* ------------------------------------------------------------------------
\* The equality-growth link
\* ------------------------------------------------------------------------

\* C24: reduced inequality boosts growth: in a year in which fiscal policy
\* makes the distribution more equal (distribution_impact < 0) the
\* equality_boost added to effective growth is positive, and it is negative
\* when the distribution becomes less equal.
C24_ReducedInequalityBoostsGrowth ==
    \A k \in Rows :
        /\ results[k].Distribution_Impact < 0 => results[k].Equality_Boost > 0
        /\ results[k].Distribution_Impact > 0 => results[k].Equality_Boost < 0

\* ------------------------------------------------------------------------
\* The classification of the initial state
\* ------------------------------------------------------------------------

\* C25: for every input, the fiscal impact of year 1 is computed with the
\* high_inflation multipliers (spending 0.2, tax 0.1): the initial state
\* (inflation 28 > 25, debt ratio below the high-debt threshold) is always
\* classified high_inflation.
C25_YearOneHighInflation ==
    Len(results) >= 1 =>
        /\ self.current_inflation > I(25)
        /\ DebtBefore(1) * 100 <= 60 * GdpBefore(1)
        /\ aux[1].condition_used = "high_inflation"
        /\ aux[1].spending_multiplier = D(2, 10)
        /\ aux[1].tax_multiplier = D(1, 10)
        /\ results[1].Fiscal_Impact =
               Div(Mul(Mul(inp.spending_change,
                           results[1].Spending - results[1].Debt_Service),
                       D(2, 10))
                   + Mul(Mul(aux[1].effective_tax_change,
                             results[1].Non_Oil_Revenue),
                         D(1, 10)),
                   GdpBefore(1))

\* A call inside the slider ranges has returned its rows: year 1 had a
\* fiscal impact other than 0 under the high_inflation multipliers and a
\* later year ran under another condition.
C25_Witness ==
    /\ pc = "done"
    /\ InRange(inp)
    /\ Len(results) >= 2
    /\ results[1].Fiscal_Impact # 0
    /\ aux[1].condition_used = "high_inflation"
    /\ \E k \in Rows : aux[k].condition_used # "high_inflation"

\* An instance whose initial debt is two thirds of its initial gdp.
HighDebtModel == [self EXCEPT !.initial_debt = Mul(self.initial_gdp, D(2, 3))]

\* C26: every call of assess_economic_condition, the one that classifies
\* the initial state included, receives debt-to-GDP as a percentage
\* (debt/gdp*100), the unit of its > 60 threshold; an initial state whose
\* debt exceeds 60% of GDP is therefore classified high_debt for year 1.
C26_ClassifierGetsPercentages ==
    pc = "loop" =>
        /\ initial_debt_to_gdp_argument(self) =
               Div(self.initial_debt, self.initial_gdp) * 100
        /\ Prologue(HighDebtModel).economic_condition = "high_debt"
        /\ \A k \in Rows :
               results[k].Economic_Condition =
                   assess_economic_condition(self, results[k].GDP, Div(results[k].Debt, results[k].GDP) * 100, results[k].Inflation)

\* ------------------------------------------------------------------------
\* The sovereign rate and the policy rate
\* ------------------------------------------------------------------------

\* C27: in every row the sovereign Interest_Rate is at least the Policy_Rate
\* of the same row: the borrowing rate is the policy rate plus a
\* non-negative risk premium, so the recorded spread is never negative.
C27_SpreadNeverNegative ==
    \A k \in Rows : results[k].Interest_Rate >= results[k].Policy_Rate

\* ------------------------------------------------------------------------
\* The monetary stances compared
\* ------------------------------------------------------------------------

\* inflation(k-1): the inflation before the iteration of row k.
InflationBefore(k) ==
    IF k = 1 THEN self.current_inflation ELSE results[k - 1].Inflation

\* The rate change that the given stance makes in the year of row k, from
\* the inflation and the condition that the year started with.
RateChangeUnder(stance, k) ==
    monetary_policy_reaction(self, results[k].Fiscal_Impact, InflationBefore(k), aux[k].condition_used, stance, inp.structural_reform).rate_change

\* C28 (as stated): for the same prior inflation and the same
\* structural_reform flag the hawkish stance never raises the policy rate by
\* less than the automatic stance, for every inflation gap reachable in a
\* run, the initial gap of 19 points included.
C28_HawkishAtLeastAutomatic ==
    \A k \in Rows :
        RateChangeUnder("hawkish", k) >= RateChangeUnder("automatic", k)

\* C28 (amended): the hawkish stance raises the policy rate by at least as
\* much as the automatic stance while the inflation gap is at most 10
\* points; above 10 points, the initial gap of 19 included, the hawkish rise
\* is capped at 4.0 and is smaller than the automatic rise of 0.4 per point.
C28_HawkishAtLeastAutomaticUpTo10 ==
    \A k \in Rows :
        /\ aux[k].rate_change = RateChangeUnder(inp.monetary_response, k)
        /\ IF InflationBefore(k) - self.inflation_target <= I(10)
           THEN RateChangeUnder("hawkish", k) >= RateChangeUnder("automatic", k)
           ELSE RateChangeUnder("hawkish", k) < RateChangeUnder("automatic", k)

\* A call inside the slider ranges has returned rows of both kinds: a year
\* that started with a gap above 10 and a year that started with a gap of
\* at most 10, in which the two stances differ.
C28_Witness ==
    /\ pc = "done"
    /\ InRange(inp)
    /\ InflationBefore(1) - self.inflation_target = I(19)
    /\ RateChangeUnder("hawkish", 1) < RateChangeUnder("automatic", 1)
    /\ \E k \in Rows :
          /\ InflationBefore(k) - self.inflation_target <= I(10)
          /\ RateChangeUnder("hawkish", k) > RateChangeUnder("automatic", k)

====
